---- MODULE Spec2Model ----
(***************************************************************************)
(* Azure DevOps work-item MCP server (azure_devops_work_items_mcp.py).     *)
(*                                                                         *)
(* The server is a set of independent handlers, each of which builds one   *)
(* HTTP request, sends it, and reshapes the answer into a text or a        *)
(* mapping.  The model keeps: the process environment and the module-level *)
(* configuration step, the remote service's work items (the only state     *)
(* that outlives a call), and the record of the call being served: its     *)
(* arguments, the requests it has sent, the responses it has received and  *)
(* the value it returned.                                                  *)
(***************************************************************************)
EXTENDS Integers, Sequences, FiniteSets, TLC

VARIABLES env,      \* os.environ after load_dotenv(): setting -> optional string
          phase,    \* "boot" | "running" | "fatal"  (module import)
          config,   \* the module-level values computed at import
          remote,   \* the remote service: sequence of work items, index = ID
          call      \* the invocation being served, or the last one served

vars == <<env, phase, config, remote, call>>

-----------------------------------------------------------------------------
(* Bounds of the model.                                                     *)

MaxId == 2          \* work items the remote service can hold
MaxIdsLen == 3      \* characters of the comma-separated ID list
MaxListed == 11     \* work items the remote service lists for the WIQL query

-----------------------------------------------------------------------------
(* Python values.                                                           *)

\* Optional[T]: None is the empty tuple, a value v is <<v>>.
Absent == <<>>
Some(v) == <<v>>

\* bool(x) of an Optional[str]: None and "" are falsy.
TruthyStr(o) == o # Absent /\ o[1] # ""
\* bool(x) of an Optional[float]: None and 0.0 are falsy.
TruthyNum(o) == o # Absent /\ o[1] # 0

\* f"{x}" of a float with an integral value: 5.0 -> "5.0".
FormatFloat(n) == ToString(n) \o ".0"

\* dict lookups.
HasKey(d, k) == k \in DOMAIN d

\* "\n".join(lines)
RECURSIVE JoinLines(_)
JoinLines(lines) ==
    IF lines = <<>> THEN ""
    ELSE IF Len(lines) = 1 THEN lines[1]
    ELSE lines[1] \o "\n" \o JoinLines(Tail(lines))

\* The outcome of evaluating a try body: a returned value or a raised exception.
Return(v) == [raised |-> FALSE, value |-> v]
Raise(e) == [raised |-> TRUE, exc |-> e]

\* Exceptions, with str(e).  All of them derive from Exception; only the one
\* raise_for_status() raises is a requests.exceptions.HTTPError.
ConnectionError == [type |-> "ConnectionError", msg |-> "connection failed"]
HTTPError(status, text) ==
    [type |-> "HTTPError", msg |-> ToString(status) \o " Error",
     status |-> status, text |-> text]
JSONDecodeError == [type |-> "JSONDecodeError", msg |-> "Expecting value"]
KeyError(k) == [type |-> "KeyError", msg |-> "'" \o k \o "'"]
ValueError(tok) ==
    [type |-> "ValueError",
     msg |-> "invalid literal for int() with base 10: '" \o tok \o "'"]

-----------------------------------------------------------------------------
(* Module-level configuration (lines 26-41).                                *)

Settings == {"ORGANIZATION", "PROJECT", "BASE_URL", "AZURE_DEVOPS_PAT"}
SettingValue(s) ==
    CASE s = "ORGANIZATION" -> "org"
      [] s = "PROJECT" -> "proj"
      [] s = "BASE_URL" -> "https://ado.example"
      [] OTHER -> "token"
\* Each setting is unset, set to the empty string, or set to a value.
Environments ==
    {e \in [Settings -> {Absent, Some(""), Some("org"), Some("proj"),
                         Some("https://ado.example"), Some("token")}] :
        \A s \in Settings : e[s] \in {Absent, Some(""), Some(SettingValue(s))}}

API_VERSION == "7.2-preview"
DefaultBaseUrl == "https://dev.azure.com"

\* os.getenv(name) and os.getenv(name, default)
Getenv(e, name) == e[name]
GetenvDefault(e, name, default) == IF e[name] = Absent THEN Some(default) ELSE e[name]

\* Variant: the base URL is required as well.
RequiredPresentWithBaseUrl(e) ==
    /\ TruthyStr(Getenv(e, "ORGANIZATION"))
    /\ TruthyStr(Getenv(e, "PROJECT"))
    /\ TruthyStr(Getenv(e, "BASE_URL"))
    /\ TruthyStr(Getenv(e, "AZURE_DEVOPS_PAT"))

\* all([ORGANIZATION, PROJECT, PAT])
RequiredPresent(e) ==
    /\ TruthyStr(Getenv(e, "ORGANIZATION"))
    /\ TruthyStr(Getenv(e, "PROJECT"))
    /\ TruthyStr(Getenv(e, "AZURE_DEVOPS_PAT"))

\* AZURE_DEVOPS_URL = f"{BASE_URL}/{ORGANIZATION}/{PROJECT}/_apis"
AzureDevopsUrl(e) ==
    GetenvDefault(e, "BASE_URL", DefaultBaseUrl)[1] \o "/" \o
    Getenv(e, "ORGANIZATION")[1] \o "/" \o Getenv(e, "PROJECT")[1] \o "/_apis"

NoConfig == [loaded |-> FALSE]
LoadedConfig(e) ==
    [loaded |-> TRUE,
     AZURE_DEVOPS_URL |-> AzureDevopsUrl(e),
     PAT |-> Getenv(e, "AZURE_DEVOPS_PAT")[1]]

NoCall == [op |-> "none", done |-> TRUE]

\* Import of the module: raise ValueError when a required setting is missing.
Startup ==
    /\ phase = "boot"
    /\ IF RequiredPresent(env)
         THEN phase' = "running" /\ config' = LoadedConfig(env)
         ELSE phase' = "fatal" /\ config' = NoConfig
    /\ UNCHANGED <<env, remote, call>>

-----------------------------------------------------------------------------
(* HTTP: requests, responses, and what requests/raise_for_status/json do.   *)

\* A URL f"{AZURE_DEVOPS_URL}/a/b?k=v" is kept as its base, its path segments
\* and its query, so that the service can route on it.
Url(path, query) == [base |-> config.AZURE_DEVOPS_URL, path |-> path, query |-> query]
VersionQuery == [api_version |-> API_VERSION]

\* f"{url}": the text of an address (without its query)
RECURSIVE PathText(_)
PathText(path) == IF path = <<>> THEN "" ELSE "/" \o Head(path) \o PathText(Tail(path))
UrlText(u) == u.base \o PathText(u.path)

Request(method, url, body) == [method |-> method, url |-> url, body |-> body]
NoBody == <<>>

\* What comes back: no answer at all, an error status, a 2xx answer whose body
\* is JSON, or a 2xx answer whose body is not JSON.
Transport == [kind |-> "transport"]
Http(status, text) == [kind |-> "http", status |-> status, text |-> text]
Ok(json) == [kind |-> "ok", json |-> json]
Garbled == [kind |-> "garbled"]

\* requests.<method>(...) followed by response.raise_for_status()
RaiseForStatus(resp) ==
    CASE resp.kind = "transport" -> Raise(ConnectionError)
      [] resp.kind = "http" -> Raise(HTTPError(resp.status, resp.text))
      [] OTHER -> Return(resp)

\* ... followed by response.json()
ReceiveJson(resp) ==
    LET r == RaiseForStatus(resp)
    IN  IF r.raised THEN r
        ELSE IF resp.kind = "garbled" THEN Raise(JSONDecodeError)
        ELSE Return(resp.json)

\* d[path[1]][path[2]]...: the value, or the KeyError of the first missing key.
RECURSIVE Lookup(_, _)
Lookup(d, path) ==
    IF path = <<>> THEN Return(d)
    ELSE IF HasKey(d, Head(path)) THEN Lookup(d[Head(path)], Tail(path))
    ELSE Raise(KeyError(Head(path)))

\* The first exception raised by the lookups `paths`, evaluated in order.
RECURSIVE FirstRaise(_, _)
FirstRaise(d, paths) ==
    IF paths = <<>> THEN Return(d)
    ELSE IF Lookup(d, Head(paths)).raised THEN Lookup(d, Head(paths))
    ELSE FirstRaise(d, Tail(paths))

-----------------------------------------------------------------------------
(* The remote service.  It holds the work items; item i of the sequence has *)
(* ID i.  A deleted item keeps its slot: IDs are never reused.  Story       *)
(* points and links are accepted and not kept, since no handler reads them. *)

Titles == {"A", "B"}
States == {"New", "Active"}
Descriptions == {"", "D"}

Item(title, state, description) ==
    [live |-> TRUE, title |-> title, state |-> state, description |-> description]
Deleted == [live |-> FALSE]

TitlePath == "/fields/System.Title"
DescriptionPath == "/fields/System.Description"
StoryPointsPath == "/fields/Microsoft.VSTS.Scheduling.StoryPoints"
StatePath == "/fields/System.State"
RelationsPath == "/relations/-"

\* The ID a path segment names, 0 when it names no live item.
ItemOf(rem, seg) ==
    IF \E i \in 1..Len(rem) : ToString(i) = seg /\ rem[i].live
      THEN CHOOSE i \in 1..Len(rem) : ToString(i) = seg
      ELSE 0

LiveIds(rem) == {i \in 1..Len(rem) : rem[i].live}

\* The url of an item in an answer: an address the client can GET.
ItemUrl(base, i) == [base |-> base, path |-> <<"wit", "workItems", ToString(i)>>, query |-> <<>>]

ItemFields(item) ==
    IF item.description = ""
      THEN ("System.Title" :> item.title) @@ ("System.State" :> item.state)
      ELSE ("System.Title" :> item.title) @@ ("System.State" :> item.state) @@
           ("System.Description" :> item.description)

\* The JSON document of item i, and one that lacks the fields and the url.
ItemPayload(rem, base, i) ==
    [id |-> i, fields |-> ItemFields(rem[i]), url |-> ItemUrl(base, i)]
PartialPayload(i) == [id |-> i]

\* A json-patch document applied to an item, entry by entry.
RECURSIVE ApplyPatch(_, _)
ApplyPatch(item, body) ==
    IF body = <<>> THEN item
    ELSE LET e == Head(body)
             next == CASE e.path = TitlePath -> [item EXCEPT !.title = e.value]
                       [] e.path = DescriptionPath -> [item EXCEPT !.description = e.value]
                       [] e.path = StatePath -> [item EXCEPT !.state = e.value]
                       [] OTHER -> item
         IN  ApplyPatch(next, Tail(body))

\* The sequence of the elements of a set of integers, ascending or descending.
RECURSIVE Ascending(_)
Ascending(S) ==
    IF S = {} THEN <<>>
    ELSE LET m == CHOOSE x \in S : \A y \in S : x <= y
         IN  <<m>> \o Ascending(S \ {m})
Reverse(s) == [k \in 1..Len(s) |-> s[Len(s) + 1 - k]]

ItemRef(base, i) == [id |-> i, url |-> ItemUrl(base, i)]

Failures(rem, status) == {<<Transport, rem>>, <<Http(status, "status " \o ToString(status)), rem>>}

\* GET/PATCH/DELETE wit/workitems/{id}
ServeItem(rem, req) ==
    LET i == ItemOf(rem, req.url.path[3])
        base == req.url.base
    IN  IF i = 0 THEN Failures(rem, 404)
        ELSE CASE req.method = "GET" ->
                    Failures(rem, 503) \cup
                    {<<Ok(ItemPayload(rem, base, i)), rem>>,
                     <<Ok(PartialPayload(i)), rem>>,
                     <<Garbled, rem>>}
               [] req.method = "PATCH" ->
                    LET after == [rem EXCEPT ![i] = ApplyPatch(rem[i], req.body)]
                    IN  Failures(rem, 400) \cup
                        {<<Ok(ItemPayload(after, base, i)), after>>,
                         <<Ok(PartialPayload(i)), after>>,
                         <<Garbled, after>>}
               [] req.method = "DELETE" ->
                    Failures(rem, 503) \cup
                    {<<Ok(PartialPayload(i)), [rem EXCEPT ![i] = Deleted]>>}
               [] OTHER -> Failures(rem, 405)

\* POST wit/workitems/${type}: a new item in state "New", when there is room.
ServeCreate(rem, req) ==
    LET i == Len(rem) + 1
        after == Append(rem, ApplyPatch(Item("", "New", ""), req.body))
    IN  IF i > MaxId THEN Failures(rem, 400)
        ELSE Failures(rem, 400) \cup
             {<<Ok(ItemPayload(after, req.url.base, i)), after>>,
              <<Ok(PartialPayload(i)), after>>,
              <<Garbled, after>>}

\* POST wit/wiql: the live items, in one of two orders; or an answer without
\* the workItems key; or references that lack their url.
ServeWiql(rem, req) ==
    LET asc == Ascending(LiveIds(rem))
        refs(order) == [k \in 1..Len(order) |-> ItemRef(req.url.base, order[k])]
        bare(order) == [k \in 1..Len(order) |-> [id |-> order[k]]]
    IN  Failures(rem, 503) \cup
        {<<Ok([workItems |-> refs(asc)]), rem>>,
         <<Ok([workItems |-> refs(Reverse(asc))]), rem>>,
         <<Ok([workItems |-> bare(asc)]), rem>>,
         <<Ok([count |-> 0]), rem>>,
         <<Garbled, rem>>}

\* GET wit/workitems?ids=...: the live items, or none, or no value key.
ServeList(rem, req) ==
    LET asc == Ascending(LiveIds(rem))
    IN  Failures(rem, 404) \cup
        {<<Ok([value |-> [k \in 1..Len(asc) |-> ItemPayload(rem, req.url.base, asc[k])]]), rem>>,
         <<Ok([value |-> <<>>]), rem>>,
         <<Ok([count |-> 0]), rem>>,
         <<Garbled, rem>>}

\* POST wit/workitemsbatch: the live items among the requested IDs, in the
\* order requested; or items without fields; or no value key.
ServeBatch(rem, req) ==
    LET wanted == SelectSeq(req.body.ids, LAMBDA i : i \in LiveIds(rem))
    IN  Failures(rem, 404) \cup
        {<<Ok([value |-> [k \in 1..Len(wanted) |->
                    [id |-> wanted[k], fields |-> ItemFields(rem[wanted[k]])]]]), rem>>,
         <<Ok([value |-> [k \in 1..Len(wanted) |-> PartialPayload(wanted[k])]]), rem>>,
         <<Ok([count |-> 0]), rem>>,
         <<Garbled, rem>>}

\* Every <<response, service state afterwards>> the service can give a request.
Serve(rem, req) ==
    LET path == req.url.path
    IN  CASE path = <<"wit", "wiql">> -> ServeWiql(rem, req)
          [] path = <<"wit", "workitemsbatch">> -> ServeBatch(rem, req)
          [] path = <<"wit", "workitems">> -> ServeList(rem, req)
          [] req.method = "POST" -> ServeCreate(rem, req)
          [] OTHER -> ServeItem(rem, req)

-----------------------------------------------------------------------------
(* Calls.  The host sends one request at a time; Invoke records it, and the *)
(* handler's action serves it to completion.                                *)

Pending(op, args) == [op |-> op, args |-> args, done |-> FALSE, sent |-> <<>>, got |-> <<>>]

\* What a handler gives back to the host.
Text(s) == [kind |-> "text", text |-> s]
Dict(d) == [kind |-> "dict", dict |-> d]
Uncaught(e) == [kind |-> "fault", exc |-> e]

\* `except cls as e`: does the clause catch e?
Catches(cls, e) == cls = "Exception" \/ e.type = cls

\* The finished call: what was sent and received, the exception the try body
\* raised (if any), and the value returned.
Finished(c, sent, got, out, result) ==
    [op |-> c.op, args |-> c.args, done |-> TRUE, sent |-> sent, got |-> got,
     exc |-> IF out.raised THEN Some(out.exc) ELSE Absent,
     result |-> result]

Invoke(c) ==
    /\ phase = "running"
    /\ call.done
    /\ call' = c
    /\ UNCHANGED <<env, phase, config, remote>>

Serving(op) == phase = "running" /\ call.op = op /\ ~call.done

\* One line of a listing: f"ID: {item['id']} | Title: {title} | State: {state}"
ListingLine(id, title, state) ==
    "ID: " \o ToString(id) \o " | Title: " \o title \o " | State: " \o state

\* except Exception as e: return f"Error: {str(e)}"
ErrorTextHandler(out) ==
    IF ~out.raised THEN Text(out.value)
    ELSE IF Catches("Exception", out.exc) THEN Text("Error: " \o out.exc.msg)
    ELSE Uncaught(out.exc)

\* except Exception as e: return {"error": str(e)}
ErrorDictHandler(out) ==
    IF ~out.raised THEN Dict(out.value)
    ELSE IF Catches("Exception", out.exc) THEN Dict([error |-> out.exc.msg])
    ELSE Uncaught(out.exc)

-----------------------------------------------------------------------------
(* get_work_item (lines 96-117)                                             *)

\* data['fields'].get('System.Description', 'No description')
DescriptionOf(fields) ==
    IF HasKey(fields, "System.Description") THEN fields["System.Description"]
    ELSE "No description"

get_work_item_try(resp) ==
    LET r == ReceiveJson(resp)
    IN  IF r.raised THEN r
        ELSE LET data == r.value
                 chk == FirstRaise(data, << <<"id">>, <<"fields", "System.Title">>,
                                            <<"fields", "System.State">>, <<"url">> >>)
             IN  IF chk.raised THEN chk
                 ELSE Return("ID: " \o ToString(data["id"]) \o "\n" \o
                             "Title: " \o data["fields"]["System.Title"] \o "\n" \o
                             "State: " \o data["fields"]["System.State"] \o "\n" \o
                             "Description: " \o DescriptionOf(data["fields"]) \o "\n" \o
                             "URL: " \o UrlText(data["url"]))

get_work_item_request(work_item_id) ==
    Request("GET", Url(<<"wit", "workitems", work_item_id>>, VersionQuery), NoBody)

get_work_item ==
    /\ Serving("get_work_item")
    /\ LET req == get_work_item_request(call.args.work_item_id)
       IN  \E sr \in Serve(remote, req) :
              LET out == get_work_item_try(sr[1])
              IN  /\ remote' = sr[2]
                  /\ call' = Finished(call, <<req>>, <<sr[1]>>, out, ErrorTextHandler(out))
    /\ UNCHANGED <<env, phase, config>>

-----------------------------------------------------------------------------
(* list_work_items (lines 119-144) and get_work_items_batch (lines 146-175) *)

\* The loop over data["value"]: the lines, or the first KeyError.
RECURSIVE ListingLines(_)
ListingLines(items) ==
    IF items = <<>> THEN Return(<<>>)
    ELSE LET item == Head(items)
             chk == FirstRaise(item, << <<"fields", "System.Title">>,
                                        <<"fields", "System.State">>, <<"id">> >>)
         IN  IF chk.raised THEN chk
             ELSE LET rest == ListingLines(Tail(items))
                  IN  IF rest.raised THEN rest
                      ELSE Return(<<ListingLine(item["id"], item["fields"]["System.Title"],
                                                item["fields"]["System.State"])>>
                                  \o rest.value)

\* Variant: no test for an empty data["value"].
ValueListingNoSentinel(r) ==
    IF r.raised THEN r
    ELSE LET v == Lookup(r.value, <<"value">>)
         IN  IF v.raised THEN v
             ELSE LET lines == ListingLines(v.value)
                  IN  IF lines.raised THEN lines ELSE Return(JoinLines(lines.value))

\* From data = response.json() on: the sentinel, the listing, or a KeyError.
ValueListing(r) ==
    IF r.raised THEN r
    ELSE LET v == Lookup(r.value, <<"value">>)
         IN  IF v.raised THEN v
             ELSE IF v.value = <<>> THEN Return("No work items found")
             ELSE LET lines == ListingLines(v.value)
                  IN  IF lines.raised THEN lines ELSE Return(JoinLines(lines.value))

list_work_items_request(ids) ==
    Request("GET", Url(<<"wit", "workitems">>, [ids |-> ids, api_version |-> API_VERSION]), NoBody)

list_work_items ==
    /\ Serving("list_work_items")
    /\ LET req == list_work_items_request(call.args.ids)
       IN  \E sr \in Serve(remote, req) :
              LET out == ValueListing(ReceiveJson(sr[1]))
              IN  /\ remote' = sr[2]
                  /\ call' = Finished(call, <<req>>, <<sr[1]>>, out, ErrorTextHandler(out))
    /\ UNCHANGED <<env, phase, config>>

\* Strings that are taken apart are sequences of one-character strings.
Digits == <<"0", "1", "2", "3", "4", "5", "6", "7", "8", "9">>
IsDigit(c) == \E d \in 1..10 : Digits[d] = c
DigitValue(c) == (CHOOSE d \in 1..10 : Digits[d] = c) - 1
IsSpace(c) == c \in {" ", "\t", "\n"}

RECURSIVE Chars(_)
Chars(s) == IF s = <<>> THEN "" ELSE Head(s) \o Chars(Tail(s))

\* s.split(sep)
RECURSIVE Split(_, _)
Split(s, sep) ==
    IF \E i \in 1..Len(s) : s[i] = sep
      THEN LET i == CHOOSE j \in 1..Len(s) : s[j] = sep /\ \A k \in 1..(j - 1) : s[k] # sep
           IN  <<SubSeq(s, 1, i - 1)>> \o Split(SubSeq(s, i + 1, Len(s)), sep)
      ELSE <<s>>

\* s.strip()
RECURSIVE LStrip(_)
LStrip(s) == IF s # <<>> /\ IsSpace(Head(s)) THEN LStrip(Tail(s)) ELSE s
Strip(s) == Reverse(LStrip(Reverse(LStrip(s))))

\* int(s): optional blanks, an optional sign, then digits, which single
\* underscores may separate.
Unsigned(s) == IF s # <<>> /\ Head(s) \in {"+", "-"} THEN Tail(s) ELSE s
IsIntLiteral(s) ==
    LET u == Unsigned(Strip(s))
    IN  /\ u # <<>>
        /\ \A i \in 1..Len(u) :
              \/ IsDigit(u[i])
              \/ u[i] = "_" /\ i > 1 /\ i < Len(u) /\ IsDigit(u[i - 1]) /\ IsDigit(u[i + 1])

RECURSIVE Magnitude(_, _)
Magnitude(u, acc) ==
    IF u = <<>> THEN acc
    ELSE IF Head(u) = "_" THEN Magnitude(Tail(u), acc)
    ELSE Magnitude(Tail(u), 10 * acc + DigitValue(Head(u)))

\* Variant: a token that is no integer literal counts as 0.
ParseIntLenient(s) ==
    IF ~IsIntLiteral(s) THEN Return(0)
    ELSE Return(Magnitude(Unsigned(Strip(s)), 0))

ParseInt(s) ==
    IF ~IsIntLiteral(s) THEN Raise(ValueError(Chars(s)))
    ELSE LET t == Strip(s)
             m == Magnitude(Unsigned(t), 0)
         IN  Return(IF Head(t) = "-" THEN 0 - m ELSE m)

\* [int(id.strip()) for id in ids.split(",")]
RECURSIVE ParseAll(_)
ParseAll(tokens) ==
    IF tokens = <<>> THEN Return(<<>>)
    ELSE LET first == ParseInt(Strip(Head(tokens)))
         IN  IF first.raised THEN first
             ELSE LET rest == ParseAll(Tail(tokens))
                  IN  IF rest.raised THEN rest ELSE Return(<<first.value>> \o rest.value)

BatchIds(ids) == ParseAll(Split(ids, ","))

BatchFields == <<"System.Id", "System.Title", "System.State">>

get_work_items_batch_request(idlist) ==
    Request("POST", Url(<<"wit", "workitemsbatch">>, VersionQuery),
            [ids |-> idlist, fields |-> BatchFields])

get_work_items_batch ==
    /\ Serving("get_work_items_batch")
    /\ LET parsed == BatchIds(call.args.ids)
       IN  IF parsed.raised
             THEN /\ remote' = remote
                  /\ call' = Finished(call, <<>>, <<>>, parsed, ErrorTextHandler(parsed))
             ELSE LET req == get_work_items_batch_request(parsed.value)
                  IN  \E sr \in Serve(remote, req) :
                         LET out == ValueListing(ReceiveJson(sr[1]))
                         IN  /\ remote' = sr[2]
                             /\ call' = Finished(call, <<req>>, <<sr[1]>>, out,
                                                 ErrorTextHandler(out))
    /\ UNCHANGED <<env, phase, config>>

-----------------------------------------------------------------------------
(* get_recent_work_items (lines 65-94), one HTTP round trip per step        *)

\* The request limit of the listing: work_items[:10]
RecentLimit == 10

WiqlQuery ==
    [query |-> "SELECT [System.Id], [System.Title], [System.State] FROM workitems WHERE [System.TeamProject] = @project ORDER BY [System.ChangedDate] DESC"]

wiql_request == Request("POST", Url(<<"wit", "wiql">>, VersionQuery), WiqlQuery)

\* Variant: no slice.
FirstItemsUnsliced(work_items) == work_items

\* work_items[:10]
FirstItems(work_items) ==
    SubSeq(work_items, 1, IF Len(work_items) < RecentLimit THEN Len(work_items) ELSE RecentLimit)

\* response.json().get("workItems", [])
WorkItemsOf(data) == IF HasKey(data, "workItems") THEN data["workItems"] ELSE <<>>

\* The listing request, and the empty-result return.
recent_start ==
    /\ Serving("get_recent_work_items")
    /\ call.sent = <<>>
    /\ \E sr \in Serve(remote, wiql_request) :
          LET r == ReceiveJson(sr[1])
              sent == <<wiql_request>>
              got == <<sr[1]>>
          IN  /\ remote' = sr[2]
              /\ call' =
                   IF r.raised THEN Finished(call, sent, got, r, ErrorTextHandler(r))
                   ELSE IF WorkItemsOf(r.value) = <<>>
                     THEN Finished(call, sent, got, r,
                                   ErrorTextHandler(Return("No recent work items found")))
                   ELSE [call EXCEPT !.sent = sent, !.got = got,
                                     !.args = [work_items |-> WorkItemsOf(r.value),
                                               details |-> <<>>]]
    /\ UNCHANGED <<env, phase, config>>

\* _fetch_work_item_details(url) (lines 51-60): GET, raise_for_status, json;
\* whatever is raised is logged and raised again.
fetch_work_item_details_request(url) == Request("GET", url, NoBody)
fetch_work_item_details(resp) == ReceiveJson(resp)

\* One turn of the loop: the detail request of the next listed item and its
\* line; the return after the last of the first ten, or at the first exception.
recent_detail ==
    /\ Serving("get_recent_work_items")
    /\ call.sent # <<>>
    /\ LET work_items == call.args.work_items
           details == call.args.details
           item == FirstItems(work_items)[Len(details) + 1]
           u == Lookup(item, <<"url">>)
       IN  IF u.raised
             THEN /\ remote' = remote
                  /\ call' = Finished(call, call.sent, call.got, u, ErrorTextHandler(u))
             ELSE LET req == fetch_work_item_details_request(u.value)
                  IN  \E sr \in Serve(remote, req) :
                         LET sent == Append(call.sent, req)
                             got == Append(call.got, sr[1])
                             r == fetch_work_item_details(sr[1])
                             chk == IF r.raised THEN r
                                    ELSE FirstRaise(r.value, << <<"fields", "System.Title">>,
                                                                <<"fields", "System.State">> >>)
                             idl == IF chk.raised THEN chk ELSE Lookup(item, <<"id">>)
                         IN  /\ remote' = sr[2]
                             /\ call' =
                                  IF idl.raised
                                    THEN Finished(call, sent, got, idl, ErrorTextHandler(idl))
                                    ELSE LET line == ListingLine(item["id"],
                                                         r.value["fields"]["System.Title"],
                                                         r.value["fields"]["System.State"])
                                             all == Append(details, line)
                                         IN  IF Len(all) = Len(FirstItems(work_items))
                                               THEN Finished(call, sent, got, idl,
                                                      ErrorTextHandler(Return(JoinLines(all))))
                                               ELSE [call EXCEPT !.sent = sent, !.got = got,
                                                                 !.args.details = all]
    /\ UNCHANGED <<env, phase, config>>

-----------------------------------------------------------------------------
(* create_work_item (lines 180-217)                                         *)

Upper == <<"A", "B", "C", "D", "E", "F", "G", "H", "I", "J", "K", "L", "M",
           "N", "O", "P", "Q", "R", "S", "T", "U", "V", "W", "X", "Y", "Z">>
Lower == <<"a", "b", "c", "d", "e", "f", "g", "h", "i", "j", "k", "l", "m",
           "n", "o", "p", "q", "r", "s", "t", "u", "v", "w", "x", "y", "z">>

\* str.lower(), character by character
LowerChar(c) ==
    IF \E i \in 1..26 : Upper[i] = c THEN Lower[CHOOSE i \in 1..26 : Upper[i] = c] ELSE c
ToLower(s) == [i \in 1..Len(s) |-> LowerChar(s[i])]

\* urllib.parse.quote(): letters and digits stay, a blank becomes %20
QuoteChar(c) == IF c = " " THEN "%20" ELSE c
RECURSIVE Quote(_)
Quote(s) == IF s = <<>> THEN "" ELSE QuoteChar(Head(s)) \o Quote(Tail(s))

UserStory == <<"u", "s", "e", "r", " ", "s", "t", "o", "r", "y">>

Patch(path, value) == [op |-> "add", path |-> path, value |-> value]

\* description or ""
OrEmpty(s) == IF s = "" THEN "" ELSE s

ParentLink(parent_id) ==
    [rel |-> "System.LinkTypes.Hierarchy-Reverse",
     url |-> Url(<<"wit", "workitems", parent_id>>, <<>>)]

\* Variant: title and description written to each other's field.
create_body_swapped(type, title, description, parent_id, story_points) ==
    <<Patch(TitlePath, OrEmpty(description)), Patch(DescriptionPath, title)>>

create_body(type, title, description, parent_id, story_points) ==
    <<Patch(TitlePath, title), Patch(DescriptionPath, OrEmpty(description))>>
    \o (IF TruthyNum(story_points) /\ ToLower(type) = UserStory
          THEN <<Patch(StoryPointsPath, story_points[1])>> ELSE <<>>)
    \o (IF TruthyStr(parent_id)
          THEN <<Patch(RelationsPath, ParentLink(parent_id[1]))>> ELSE <<>>)

create_work_item_request(a) ==
    Request("POST", Url(<<"wit", "workitems", "$" \o Quote(a.type)>>, VersionQuery),
            create_body(a.type, a.title, a.description, a.parent_id, a.story_points))

create_work_item_try(resp) ==
    LET r == ReceiveJson(resp)
    IN  IF r.raised THEN r
        ELSE LET chk == FirstRaise(r.value, << <<"id">>, <<"url">> >>)
             IN  IF chk.raised THEN chk
                 ELSE Return([result |-> "Work item created: ID " \o ToString(r.value["id"]),
                              id |-> r.value["id"], url |-> r.value["url"]])

\* Variant: only the HTTPError clause.
create_work_item_handler_http_only(out) ==
    IF ~out.raised THEN Dict(out.value)
    ELSE IF Catches("HTTPError", out.exc)
      THEN Dict([error |-> "HTTP Error " \o ToString(out.exc.status) \o ": " \o out.exc.text])
    ELSE Uncaught(out.exc)

\* except requests.exceptions.HTTPError as e: ...; except Exception as e: ...
create_work_item_handler(out) ==
    IF ~out.raised THEN Dict(out.value)
    ELSE IF Catches("HTTPError", out.exc)
      THEN Dict([error |-> "HTTP Error " \o ToString(out.exc.status) \o ": " \o out.exc.text])
    ELSE IF Catches("Exception", out.exc) THEN Dict([error |-> out.exc.msg])
    ELSE Uncaught(out.exc)

create_work_item ==
    /\ Serving("create_work_item")
    /\ LET req == create_work_item_request(call.args)
       IN  \E sr \in Serve(remote, req) :
              LET out == create_work_item_try(sr[1])
              IN  /\ remote' = sr[2]
                  /\ call' = Finished(call, <<req>>, <<sr[1]>>, out,
                                      create_work_item_handler(out))
    /\ UNCHANGED <<env, phase, config>>

-----------------------------------------------------------------------------
(* delete_work_item (lines 219-233)                                         *)

delete_work_item_request(work_item_id) ==
    Request("DELETE", Url(<<"wit", "workitems", work_item_id>>, VersionQuery), NoBody)

delete_work_item_try(work_item_id, resp) ==
    LET r == RaiseForStatus(resp)
    IN  IF r.raised THEN r
        ELSE Return([result |-> "Work item " \o work_item_id \o " deleted successfully"])

delete_work_item ==
    /\ Serving("delete_work_item")
    /\ LET req == delete_work_item_request(call.args.work_item_id)
       IN  \E sr \in Serve(remote, req) :
              LET out == delete_work_item_try(call.args.work_item_id, sr[1])
              IN  /\ remote' = sr[2]
                  /\ call' = Finished(call, <<req>>, <<sr[1]>>, out, ErrorDictHandler(out))
    /\ UNCHANGED <<env, phase, config>>

-----------------------------------------------------------------------------
(* update_work_item (lines 235-266)                                         *)

\* Variant: the state is written to the title field.
update_body_state_as_title(title, description, story_points, state) ==
    (IF TruthyStr(title) THEN <<Patch(TitlePath, title[1])>> ELSE <<>>)
    \o (IF TruthyStr(description) THEN <<Patch(DescriptionPath, description[1])>> ELSE <<>>)
    \o (IF TruthyNum(story_points) THEN <<Patch(StoryPointsPath, story_points[1])>> ELSE <<>>)
    \o (IF TruthyStr(state) THEN <<Patch(TitlePath, state[1])>> ELSE <<>>)

update_body(title, description, story_points, state) ==
    (IF TruthyStr(title) THEN <<Patch(TitlePath, title[1])>> ELSE <<>>)
    \o (IF TruthyStr(description) THEN <<Patch(DescriptionPath, description[1])>> ELSE <<>>)
    \o (IF TruthyNum(story_points) THEN <<Patch(StoryPointsPath, story_points[1])>> ELSE <<>>)
    \o (IF TruthyStr(state) THEN <<Patch(StatePath, state[1])>> ELSE <<>>)

update_work_item_request(a) ==
    Request("PATCH", Url(<<"wit", "workitems", a.work_item_id>>, VersionQuery),
            update_body(a.title, a.description, a.story_points, a.state))

update_work_item_try(work_item_id, resp) ==
    LET r == ReceiveJson(resp)
    IN  IF r.raised THEN r
        ELSE LET chk == Lookup(r.value, <<"url">>)
             IN  IF chk.raised THEN chk
                 ELSE Return([result |-> "Work item " \o work_item_id \o " updated",
                              url |-> r.value["url"]])

NoFieldsOutcome == Return([error |-> "No fields provided to update"])

update_work_item ==
    /\ Serving("update_work_item")
    /\ LET req == update_work_item_request(call.args)
       IN  IF req.body = <<>>
             THEN /\ remote' = remote
                  /\ call' = Finished(call, <<>>, <<>>, NoFieldsOutcome,
                                      ErrorDictHandler(NoFieldsOutcome))
             ELSE \E sr \in Serve(remote, req) :
                     LET out == update_work_item_try(call.args.work_item_id, sr[1])
                     IN  /\ remote' = sr[2]
                         /\ call' = Finished(call, <<req>>, <<sr[1]>>, out,
                                             ErrorDictHandler(out))
    /\ UNCHANGED <<env, phase, config>>

-----------------------------------------------------------------------------
(* analyze_work_item (lines 271-297)                                        *)

analyze_work_item_try(work_item_id, resp) ==
    LET r == ReceiveJson(resp)
    IN  IF r.raised THEN r
        ELSE LET data == r.value
                 chk == FirstRaise(data, << <<"fields", "System.Title">>,
                                            <<"fields", "System.State">> >>)
             IN  IF chk.raised THEN chk
                 ELSE Return("Please analyze this Azure DevOps work item:\n" \o
                             "ID: " \o work_item_id \o "\n" \o
                             "Title: " \o data["fields"]["System.Title"] \o "\n" \o
                             "State: " \o data["fields"]["System.State"] \o "\n" \o
                             "Description: " \o DescriptionOf(data["fields"]) \o "\n\n" \o
                             "What insights can you provide about its status and content?")

\* except Exception as e: return f"Error retrieving work item: {str(e)}"
analyze_work_item_handler(out) ==
    IF ~out.raised THEN Text(out.value)
    ELSE IF Catches("Exception", out.exc)
      THEN Text("Error retrieving work item: " \o out.exc.msg)
    ELSE Uncaught(out.exc)

analyze_work_item ==
    /\ Serving("analyze_work_item")
    /\ LET req == get_work_item_request(call.args.work_item_id)
       IN  \E sr \in Serve(remote, req) :
              LET out == analyze_work_item_try(call.args.work_item_id, sr[1])
              IN  /\ remote' = sr[2]
                  /\ call' = Finished(call, <<req>>, <<sr[1]>>, out,
                                      analyze_work_item_handler(out))
    /\ UNCHANGED <<env, phase, config>>

-----------------------------------------------------------------------------
(* suggest_work_item_update (lines 299-327): no try, no request             *)

suggest_updates(title, description, story_points, state) ==
    (IF TruthyStr(title) THEN <<"Title: " \o title[1]>> ELSE <<>>)
    \o (IF TruthyStr(description) THEN <<"Description: " \o description[1]>> ELSE <<>>)
    \o (IF TruthyNum(story_points)
          THEN <<"Story Points: " \o FormatFloat(story_points[1])>> ELSE <<>>)
    \o (IF TruthyStr(state) THEN <<"State: " \o state[1]>> ELSE <<>>)

suggest_text(work_item_id, updates) ==
    IF updates = <<>> THEN "No updates suggested"
    ELSE "Please update this Azure DevOps work item:\n" \o
         "ID: " \o work_item_id \o "\n" \o
         "Suggested Updates:\n" \o
         JoinLines(updates) \o "\n\n" \o
         "Proceed with these changes?"

suggest_work_item_update ==
    /\ Serving("suggest_work_item_update")
    /\ LET a == call.args
           out == Return(suggest_text(a.work_item_id,
                     suggest_updates(a.title, a.description, a.story_points, a.state)))
       IN  call' = Finished(call, <<>>, <<>>, out, Text(out.value))
    /\ UNCHANGED <<env, phase, config, remote>>

-----------------------------------------------------------------------------
(* Inputs.                                                                  *)

\* The IDs a caller names: those the service can hold.
WorkItemIds == {ToString(i) : i \in 1..MaxId}

TypeTask == <<"T", "a", "s", "k">>
TypeUserStory == <<"U", "s", "e", "r", " ", "S", "t", "o", "r", "y">>
TypeUpperStory == <<"U", "S", "E", "R", " ", "S", "T", "O", "R", "Y">>
TypeBug == <<"B", "u", "g">>

OptTitles == {Absent, Some(""), Some("A"), Some("B")}
OptDescriptions == {Absent, Some(""), Some("D")}
OptPoints == {Absent, Some(0), Some(5)}
OptStates == {Absent, Some(""), Some("Active")}

UpdateArgs(ids, titles, descriptions, points, states) ==
    [work_item_id : ids, title : titles, description : descriptions,
     story_points : points, state : states]

CreateArgs(types, titles, descriptions, parents, points) ==
    [type : types, title : titles, description : descriptions,
     parent_id : parents, story_points : points]

Calls(op, argset) == {Pending(op, a) : a \in argset}

\* Every character sequence of at most n characters of the alphabet.
IdsAlphabet == {"1", "2", ",", " ", "a", "-", "_"}
RECURSIVE StringsUpTo(_)
StringsUpTo(n) ==
    IF n = 0 THEN {<<>>}
    ELSE LET shorter == StringsUpTo(n - 1)
         IN  shorter \cup {Append(s, c) : s \in shorter, c \in IdsAlphabet}

\* The calls of the full service run: every operation, few values of each.
ServiceCalls ==
    Calls("get_work_item", [work_item_id : WorkItemIds])
    \cup Calls("analyze_work_item", [work_item_id : WorkItemIds])
    \cup Calls("delete_work_item", [work_item_id : WorkItemIds])
    \cup Calls("list_work_items", [ids : {<<"1", ",", "2">>}])
    \cup Calls("get_work_items_batch", [ids : {<<"2", ",", "1">>, <<"1", ",", "a">>}])
    \cup Calls("get_recent_work_items", {<<>>})
    \cup Calls("create_work_item",
               CreateArgs({TypeTask}, Titles, Descriptions, {Absent}, {Absent}))
    \cup Calls("update_work_item",
               UpdateArgs(WorkItemIds, {Absent, Some("A"), Some("B")}, {Absent},
                          {Absent, Some(0)}, {Absent, Some("Active")}))
    \cup Calls("suggest_work_item_update",
               UpdateArgs({"1"}, {Absent, Some("A")}, {Absent}, {Absent}, {Absent}))

-----------------------------------------------------------------------------
(* Specifications.                                                          *)

Configured == [s \in Settings |-> Some(SettingValue(s))]

\* The server configured, and a service that already holds some items.
Configured_Init(remotes) ==
    /\ env = Configured
    /\ phase = "boot"
    /\ config = NoConfig
    /\ remote \in remotes
    /\ call = NoCall

\* The configured server and the service from the start: nothing is stored yet.
Init == Configured_Init({<<>>})

Handlers ==
    \/ get_work_item
    \/ list_work_items
    \/ get_work_items_batch
    \/ recent_start
    \/ recent_detail
    \/ create_work_item
    \/ delete_work_item
    \/ update_work_item
    \/ analyze_work_item
    \/ suggest_work_item_update

Next ==
    \/ Startup
    \/ \E c \in ServiceCalls : Invoke(c)
    \/ Handlers

Spec == Init /\ [][Next]_vars

\* The first request of a process.
InvokeFirst(c) == call = NoCall /\ Invoke(c)

SomeRemotes == {<<>>, <<Item("A", "New", "")>>, <<Item("A", "New", "D"), Item("B", "Active", "")>>}

\* Startup from every environment, then one call of each operation against a
\* service that holds one item.
StartupCalls ==
    Calls("get_work_item", [work_item_id : {"1"}])
    \cup Calls("analyze_work_item", [work_item_id : {"1"}])
    \cup Calls("delete_work_item", [work_item_id : {"1"}])
    \cup Calls("list_work_items", [ids : {<<"1">>}])
    \cup Calls("get_work_items_batch", [ids : {<<"1">>}])
    \cup Calls("get_recent_work_items", {<<>>})
    \cup Calls("create_work_item", CreateArgs({TypeTask}, {"A"}, {""}, {Absent}, {Absent}))
    \cup Calls("update_work_item",
               UpdateArgs({"1"}, {Some("B")}, {Absent}, {Absent}, {Absent}))
    \cup Calls("suggest_work_item_update",
               UpdateArgs({"1"}, {Some("B")}, {Absent}, {Absent}, {Absent}))
InitStartup ==
    /\ env \in Environments
    /\ phase = "boot"
    /\ config = NoConfig
    /\ remote = <<Item("A", "New", "")>>
    /\ call = NoCall
NextStartup ==
    \/ Startup
    \/ \E c \in StartupCalls : Invoke(c)
    \/ Handlers
SpecStartup == InitStartup /\ [][NextStartup]_vars

\* update_work_item alone, on every combination of its optional fields.
UpdateCalls ==
    Calls("update_work_item",
          UpdateArgs(WorkItemIds, OptTitles, OptDescriptions, OptPoints, OptStates))
InitUpdate == Configured_Init(SomeRemotes)
NextUpdate ==
    \/ Startup
    \/ \E c \in UpdateCalls : InvokeFirst(c)
    \/ update_work_item
SpecUpdate == InitUpdate /\ [][NextUpdate]_vars

\* create_work_item alone, on every combination of its inputs.
CreateCalls ==
    Calls("create_work_item",
          CreateArgs({TypeTask, TypeBug, TypeUserStory, TypeUpperStory, UserStory},
                     {"", "A"}, Descriptions, {Absent, Some(""), Some("1")}, OptPoints))
InitCreate == Configured_Init(SomeRemotes)
NextCreate ==
    \/ Startup
    \/ \E c \in CreateCalls : InvokeFirst(c)
    \/ create_work_item
SpecCreate == InitCreate /\ [][NextCreate]_vars

\* suggest_work_item_update alone, on every combination of its optional fields.
SuggestCalls ==
    Calls("suggest_work_item_update",
          UpdateArgs(WorkItemIds, OptTitles, OptDescriptions, OptPoints, OptStates))
InitSuggest == Configured_Init(SomeRemotes)
NextSuggest ==
    \/ Startup
    \/ \E c \in SuggestCalls : InvokeFirst(c)
    \/ suggest_work_item_update
SpecSuggest == InitSuggest /\ [][NextSuggest]_vars

\* get_work_items_batch alone, on every ID list of at most MaxIdsLen characters.
BatchCalls == Calls("get_work_items_batch", [ids : StringsUpTo(MaxIdsLen)])
InitBatch == Configured_Init(SomeRemotes)
NextBatch ==
    \/ Startup
    \/ \E c \in BatchCalls : InvokeFirst(c)
    \/ get_work_items_batch
SpecBatch == InitBatch /\ [][NextBatch]_vars

\* get_recent_work_items alone, against a service that lists up to MaxListed items.
ListedRemote(n) ==
    [i \in 1..n |-> Item(IF i % 2 = 1 THEN "A" ELSE "B", IF i % 3 = 0 THEN "Active" ELSE "New", "")]
InitRecent == Configured_Init({ListedRemote(n) : n \in 0..MaxListed})
NextRecent ==
    \/ Startup
    \/ \E c \in Calls("get_recent_work_items", {<<>>}) : Invoke(c)
    \/ recent_start
    \/ recent_detail
SpecRecent == InitRecent /\ [][NextRecent]_vars

-----------------------------------------------------------------------------
(* Properties.                                                              *)

Done(op) == call.op = op /\ call.done
Succeeded == call.op # "none" /\ call.done /\ call.exc = Absent
HasPrefix(text, p) == Len(text) >= Len(p) /\ SubSeq(text, 1, Len(p)) = p
IsErrorDict(r) == r.kind = "dict" /\ HasKey(r.dict, "error")
IsErrorText(r) == r.kind = "text" /\ HasPrefix(r.text, "Error:")
Min(a, b) == IF a < b THEN a ELSE b

\* The fields a caller supplies are those that are not None.
Supplied(a) ==
    (IF a.title # Absent THEN <<"title">> ELSE <<>>)
    \o (IF a.description # Absent THEN <<"description">> ELSE <<>>)
    \o (IF a.story_points # Absent THEN <<"story_points">> ELSE <<>>)
    \o (IF a.state # Absent THEN <<"state">> ELSE <<>>)

\* C1: an update_work_item call that supplies none of title, description,
\* story points and state returns {"error": "No fields provided to update"}
\* and sends nothing; a call that supplies at least one sends one PATCH.
C1_UpdateSendsIffSupplied ==
    Done("update_work_item") =>
        IF Supplied(call.args) = <<>>
          THEN /\ IsErrorDict(call.result)
               /\ call.result.dict.error = "No fields provided to update"
               /\ call.sent = <<>>
          ELSE Len(call.sent) = 1 /\ call.sent[1].method = "PATCH"

\* The entries of a json-patch document that write story points.
PointsEntries(body) == SelectSeq(body, LAMBDA e : e.path = StoryPointsPath)
IsUserStoryType(type) == type \in {TypeUserStory, TypeUpperStory, UserStory}

\* C2: create_work_item with a type equal to "user story" whatever the case
\* and a story-points value that is not None sends exactly one story-points
\* entry carrying that value; with any other type it sends none.
C2_CreateStoryPoints ==
    Done("create_work_item") =>
        LET entries == PointsEntries(call.sent[1].body)
            points == call.args.story_points
        IN  /\ IsUserStoryType(call.args.type) /\ points # Absent =>
                  Len(entries) = 1 /\ entries[1].value = points[1]
            /\ ~IsUserStoryType(call.args.type) => entries = <<>>

\* A token is an integer when, blanks trimmed, it is an optional sign and
\* then one or more digits, written as the language writes integers: an
\* underscore may stand between two digits.
IsInteger(token) ==
    LET t == Strip(token)
        d == IF t # <<>> /\ t[1] \in {"+", "-"} THEN Tail(t) ELSE t
        digit(c) == c \in {"0", "1", "2", "3", "4", "5", "6", "7", "8", "9"}
    IN  /\ d # <<>>
        /\ digit(d[1]) /\ digit(d[Len(d)])
        /\ \A i \in 1..Len(d) : digit(d[i]) \/ d[i] = "_"
        /\ \A i \in 1..(Len(d) - 1) : ~(d[i] = "_" /\ d[i + 1] = "_")
HasBadToken(ids) == \E k \in 1..Len(Split(ids, ",")) : ~IsInteger(Split(ids, ",")[k])

\* C3: a get_work_items_batch call whose ID list has a token that is not an
\* integer (an empty token included) returns a text that starts "Error:" and
\* has sent no request.
C3_BatchRejectsBadToken ==
    Done("get_work_items_batch") /\ HasBadToken(call.args.ids) =>
        IsErrorText(call.result) /\ call.sent = <<>> /\ call.got = <<>>

C3_Witness ==
    /\ Done("get_work_items_batch")
    /\ call.args.ids = <<"1", ",", "a">>
    /\ IsErrorText(call.result)

\* The text the prompt is to have for the fields listed in `names`, in the
\* order title, description, story points, state.
SuggestLine(a, name) ==
    CASE name = "title" -> "Title: " \o a.title[1]
      [] name = "description" -> "Description: " \o a.description[1]
      [] name = "story_points" -> "Story Points: " \o FormatFloat(a.story_points[1])
      [] OTHER -> "State: " \o a.state[1]
SuggestLines(a) == [k \in 1..Len(Supplied(a)) |-> SuggestLine(a, Supplied(a)[k])]

\* C4: suggest_work_item_update returns "No updates suggested" when no field
\* is supplied; otherwise its text lists one line for each supplied field and
\* no other, in the order title, description, story points, state; it never
\* sends a request.
C4_SuggestListsSupplied ==
    Done("suggest_work_item_update") =>
        /\ call.sent = <<>>
        /\ call.result.kind = "text"
        /\ IF Supplied(call.args) = <<>>
             THEN call.result.text = "No updates suggested"
             ELSE call.result.text =
                    "Please update this Azure DevOps work item:\n" \o
                    "ID: " \o call.args.work_item_id \o "\n" \o
                    "Suggested Updates:\n" \o
                    JoinLines(SuggestLines(call.args)) \o "\n\n" \o
                    "Proceed with these changes?"

\* The service answered the listing request with success and no items.
ZeroItems(key) ==
    /\ call.got # <<>>
    /\ call.got[1].kind = "ok"
    /\ HasKey(call.got[1].json, key)
    /\ call.got[1].json[key] = <<>>

\* C5: when the service answers with success and zero items, list_work_items
\* and get_work_items_batch return "No work items found" and
\* get_recent_work_items returns "No recent work items found" after its one
\* listing request; none of them returns an "Error:" text.
C5_EmptySentinel ==
    /\ (Done("list_work_items") \/ Done("get_work_items_batch")) /\ ZeroItems("value") =>
          call.result = Text("No work items found")
    /\ Done("get_recent_work_items") /\ ZeroItems("workItems") =>
          call.result = Text("No recent work items found") /\ Len(call.sent) = 1

C5_Witness ==
    /\ Done("get_work_items_batch")
    /\ ZeroItems("value")
    /\ call.result.text = "No work items found"

ReadOps == {"get_recent_work_items", "get_work_item", "list_work_items",
            "get_work_items_batch", "analyze_work_item", "suggest_work_item_update"}
WriteOps == {"create_work_item", "update_work_item", "delete_work_item"}

\* The call ended in a failure: its try body raised, or it was an update
\* without fields.
Failed ==
    /\ call.op # "none"
    /\ call.done
    /\ call.exc # Absent \/ (call.op = "update_work_item" /\ call.sent = <<>>)

\* What create_work_item is to return on an HTTP error status.
CreateHttpError ==
    Done("create_work_item") /\ call.exc # Absent /\ call.exc[1].type = "HTTPError" =>
        call.result.dict.error =
            "HTTP Error " \o ToString(call.got[1].status) \o ": " \o call.got[1].text

NoFault == call.op # "none" /\ call.done => call.result.kind # "fault"

\* C6 as stated: no call ends in an uncaught fault; a failed call of a
\* read-style operation returns a text that starts "Error:", a failed create,
\* update or delete returns a mapping with an "error" field, and create's
\* error for an HTTP error status carries the status code and the body.
C6_UniformFailure ==
    /\ NoFault
    /\ Failed /\ call.op \in ReadOps => IsErrorText(call.result)
    /\ Failed /\ call.op \in WriteOps => IsErrorDict(call.result)
    /\ CreateHttpError

\* C6 amended: as C6, except that a failed analyze_work_item returns a text
\* that starts "Error retrieving work item:".
C6_FailureShapes ==
    /\ NoFault
    /\ Failed /\ call.op \in ReadOps \ {"analyze_work_item"} => IsErrorText(call.result)
    /\ Failed /\ call.op = "analyze_work_item" =>
          call.result.kind = "text" /\ HasPrefix(call.result.text, "Error retrieving work item:")
    /\ Failed /\ call.op \in WriteOps => IsErrorDict(call.result)
    /\ CreateHttpError

C6_Witness ==
    /\ Done("analyze_work_item")
    /\ call.exc # Absent
    /\ call.exc[1].type = "KeyError"

AllSettings == {"ORGANIZATION", "PROJECT", "BASE_URL", "AZURE_DEVOPS_PAT"}
RequiredSettings == {"ORGANIZATION", "PROJECT", "AZURE_DEVOPS_PAT"}

\* C7 as stated: the process refuses to start, and serves no call, whenever
\* one of the four settings is absent; it runs only with all four present.
C7_FourRequired ==
    phase # "boot" =>
        /\ (\E s \in AllSettings : env[s] = Absent) => phase = "fatal"
        /\ phase = "running" => \A s \in AllSettings : env[s] # Absent
        /\ phase = "fatal" => call = NoCall

\* C7 amended: the process refuses to start, and serves no call, exactly when
\* organization, project or credential is absent or empty; without a base URL
\* it starts with https://dev.azure.com.
C7_ThreeRequired ==
    phase # "boot" =>
        /\ phase = "fatal" <=> \E s \in RequiredSettings : env[s] \in {Absent, Some("")}
        /\ phase = "fatal" => call = NoCall /\ config = NoConfig
        /\ phase = "running" /\ env["BASE_URL"] = Absent =>
              config.AZURE_DEVOPS_URL = "https://dev.azure.com/org/proj/_apis"

C7_Witness ==
    /\ phase = "running"
    /\ env["BASE_URL"] = Absent
    /\ call.op # "none"
    /\ call.done

\* The live item a call's work_item_id names, 0 when it names none.
Named(rem, id) ==
    IF \E i \in LiveIds(rem) : ToString(i) = id
      THEN CHOOSE i \in LiveIds(rem) : ToString(i) = id
      ELSE 0

\* A successful get_work_item shows the ID asked for and the title and state
\* the service holds for it.
GetShowsItem ==
    Done("get_work_item") /\ Succeeded =>
        LET i == Named(remote, call.args.work_item_id)
        IN  /\ i # 0
            /\ HasPrefix(call.result.text,
                         "ID: " \o call.args.work_item_id \o "\n" \o
                         "Title: " \o remote[i].title \o "\n" \o
                         "State: " \o remote[i].state \o "\n")

\* The step in which a handler returns.
Returns(op) == ~call.done /\ call'.done /\ call'.op = op

\* An update sets a field when it passes a non-empty value for it.
Sets(field) == field # Absent /\ field[1] # ""

\* What an update that took effect leaves in item i.
Updated(i) ==
    /\ i \in LiveIds(remote')
    /\ remote'[i].title =
          IF Sets(call'.args.title) THEN call'.args.title[1] ELSE remote[i].title
    /\ remote'[i].state =
          IF Sets(call'.args.state) THEN call'.args.state[1] ELSE remote[i].state

\* A step that is no update changes no item, except that a delete may remove
\* the item it names.
OtherStepsKeep ==
    ~Returns("update_work_item") =>
        \A i \in LiveIds(remote) :
            \/ i \in LiveIds(remote') /\ remote'[i] = remote[i]
            \/ Returns("delete_work_item") /\ call'.args.work_item_id = ToString(i)

\* The update returned its success mapping / its error mapping.
ReturnedSuccess == call'.result.kind = "dict" /\ HasKey(call'.result.dict, "result")
\* The service took the PATCH: it answered with a success status.
Accepted == call'.got # <<>> /\ call'.got[1].kind \in {"ok", "garbled"}

UpdateBySuccess ==
    Returns("update_work_item") =>
        \A i \in LiveIds(remote) :
            IF ToString(i) = call'.args.work_item_id /\ ReturnedSuccess
              THEN Updated(i)
              ELSE i \in LiveIds(remote') /\ remote'[i] = remote[i]

UpdateByAcceptance ==
    Returns("update_work_item") =>
        /\ ReturnedSuccess => Accepted
        /\ \A i \in LiveIds(remote) :
              IF ToString(i) = call'.args.work_item_id /\ Accepted
                THEN Updated(i)
                ELSE i \in LiveIds(remote') /\ remote'[i] = remote[i]

\* C8 as stated: a successful get_work_item shows the ID and the title and
\* state that the most recent successful update_work_item on that ID set (a
\* field it did not set keeps its value); an update that failed or had no
\* fields, and every create and every delete of another item, changes nothing
\* of what get_work_item shows.
C8_LastSuccessfulUpdate ==
    /\ []GetShowsItem
    /\ [][UpdateBySuccess /\ OtherStepsKeep]_vars

\* C8 amended: as C8, with "the service accepted the update's PATCH" in place
\* of "the update was successful": an update that sent nothing, or whose PATCH
\* the service refused or never got, changes nothing; every update that
\* returns success was accepted.
C8_LastAcceptedUpdate ==
    /\ []GetShowsItem
    /\ [][UpdateByAcceptance /\ OtherStepsKeep]_vars

C8_Witness ==
    /\ Done("get_work_item")
    /\ Succeeded
    /\ call.args.work_item_id = "2"
    /\ remote[2].title = "B"
    /\ remote[2].state = "Active"

\* A successful create returns the ID of a new item that holds the title given.
CreateStoresTitle ==
    Returns("create_work_item") /\ call'.exc = Absent =>
        LET i == call'.result.dict.id
        IN  /\ i \notin 1..Len(remote)
            /\ i \in LiveIds(remote')
            /\ remote'[i].title = call'.args.title
            /\ call'.result.dict.result = "Work item created: ID " \o ToString(i)

\* Only an update or a delete of an item changes its title.
TitleKept ==
    \A i \in LiveIds(remote) :
        \/ i \in LiveIds(remote') /\ remote'[i].title = remote[i].title
        \/ /\ call'.op \in {"update_work_item", "delete_work_item"}
           /\ call'.args.work_item_id = ToString(i)

GetShowsTitle ==
    Done("get_work_item") /\ Succeeded =>
        LET i == Named(remote, call.args.work_item_id)
        IN  /\ i # 0
            /\ HasPrefix(call.result.text,
                         "ID: " \o ToString(i) \o "\n" \o "Title: " \o remote[i].title \o "\n")

\* C9: when create_work_item with title T succeeds with ID i, a successful
\* get_work_item on i that follows, with no update or delete of i between,
\* returns a text whose ID is i and whose Title line is T.
C9_CreateGetRoundTrip ==
    /\ [][CreateStoresTitle /\ TitleKept]_vars
    /\ []GetShowsTitle

C9_Witness ==
    /\ Done("get_work_item")
    /\ Succeeded
    /\ HasPrefix(call.result.text, "ID: 2\nTitle: B\nState: New\n")

\* The items the listing answer holds.
Listed ==
    IF call.got # <<>> /\ call.got[1].kind = "ok" /\ HasKey(call.got[1].json, "workItems")
      THEN call.got[1].json["workItems"]
      ELSE <<>>

RecentLine(ref) ==
    "ID: " \o ToString(ref["id"]) \o " | Title: " \o remote[ref["id"]].title \o
    " | State: " \o remote[ref["id"]].state

\* The requests of a get_recent_work_items call, and its result.
RecentRequests ==
    call.op = "get_recent_work_items" /\ call.sent # <<>> =>
        LET n == Len(Listed)
            sent == call.sent
            got == call.got
        IN  /\ sent[1].method = "POST" /\ sent[1].url.path = <<"wit", "wiql">>
            /\ Len(got) = Len(sent)
            /\ Len(sent) - 1 <= Min(n, 10)
            /\ \A k \in 2..Len(sent) :
                  /\ sent[k].method = "GET"
                  /\ sent[k].url = Listed[k - 1]["url"]
            /\ \A k \in 1..(Len(sent) - 1) :
                  got[k].kind = "ok" /\ (k > 1 => HasKey(got[k].json, "fields"))
            /\ call.done /\ call.exc = Absent /\ n >= 1 =>
                  /\ Len(sent) = 1 + Min(n, 10)
                  /\ call.result =
                       Text(JoinLines([k \in 1..Min(n, 10) |-> RecentLine(Listed[k])]))
            /\ call.done /\ call.exc # Absent =>
                  call.result = Text("Error: " \o call.exc[1].msg)
            /\ ~call.done => call.got[Len(got)].kind = "ok"

\* A step sends at most one request, and none once the call has returned.
OneRequestPerStep ==
    call.op = "get_recent_work_items" /\ call'.op = "get_recent_work_items" =>
        /\ Len(call'.sent) <= Len(call.sent) + 1
        /\ call.done => call' = call \/ call'.sent = <<>>
        /\ ~call.done => SubSeq(call'.sent, 1, Len(call.sent)) = call.sent

\* C10: a get_recent_work_items call sends the one WIQL request first and
\* then the detail requests one after another, for the first min(n, 10) items
\* listed, in their order, each only after the one before succeeded; when all
\* succeed its result is those min(n, 10) lines in that order; at the first
\* failure it sends nothing more and returns only the "Error:" text.
C10_RecentSequence ==
    /\ []RecentRequests
    /\ [][OneRequestPerStep]_vars

C10_Witness ==
    /\ Done("get_recent_work_items")
    /\ call.exc = Absent
    /\ Len(Listed) = 11
    /\ Len(call.sent) = 11

====
